---- MODULE Spec2Model ----
(***************************************************************************)
(* Model of src/main.py: the in-memory repository graph (a networkx        *)
(* DiGraph), the SQLite store (tables nodes and edges), the construction   *)
(* helpers, the persistence functions and main_entry.                      *)
(*                                                                         *)
(* Strings that the code takes apart at '/' (paths, repository ids, import *)
(* identifiers, commit hashes used as node ids) are sequences of their     *)
(* '/'-separated segments: "/p/a" is <<"", "p", "a">>, "user/repo" is      *)
(* <<"user", "repo">>, "std" is <<"std">>.  Two node ids are equal exactly *)
(* when the Python strings are equal.                                      *)
(***************************************************************************)
EXTENDS Integers, Sequences, FiniteSets, TLC

VARIABLES
    repo_graph,   \* main.py:13, the process-wide DiGraph
    test_graph,   \* a second DiGraph object handed in as the graph= argument
    store,        \* the SQLite file at db_path: schema flag, nodes rows, edges rows
    remote,       \* inspector: outcome of `git remote get-url origin` per repository
    gitlog,       \* inspector: outcome of `git log` per repository
    content,      \* inspector: outcome of reading each .zig file
    last,         \* the operation that ran last and how it ended
    ops,          \* number of operations run so far (bounded exploration)
    pc,           \* position of main_entry in the running process
    todo,         \* directory entries the current loop of main_entry has yet to visit
    cycles,       \* completed runs of main_entry
    savedGraph,   \* repo_graph as it was when save_graph_to_db last ran in main_entry
    args,         \* the arguments of a function called on its own
    ret,          \* the value that call returned
    call_order    \* the calls of the current run, each noted when control leaves it

vars == <<repo_graph, test_graph, store, remote, gitlog, content,
          last, ops, pc, todo, cycles, savedGraph, args, ret, call_order>>

world == <<remote, gitlog, content>>

(***************************************************************************)
(* Bounds of the exploration.                                              *)
(***************************************************************************)
MaxOps == 3
MaxCycles == 2

(***************************************************************************)
(* NodeType (main.py:20-24) and the relation labels used by add_edge.      *)
(***************************************************************************)
COMMIT == "commit"
FILE == "file"
FOLDER == "folder"
REPOSITORY == "repository"
NodeType == {COMMIT, FILE, FOLDER, REPOSITORY}

Relations == {"has_commit", "contains", "modifies", "references"}

AttrKeys == {"node_type", "timestamp", "author", "message"}

GraphRefs == {"repo_graph", "test_graph"}

(***************************************************************************)
(* networkx.DiGraph.  nodes maps a node id to its attribute dict (a        *)
(* function from the keys that are set to their values); adj maps a pair   *)
(* <<u, v>> to the relation attribute of the single edge u -> v.           *)
(***************************************************************************)
EmptyDict == [k \in {} |-> ""]

EmptyGraph == [nodes |-> [n \in {} |-> EmptyDict], adj |-> [e \in {} |-> ""]]

\* DiGraph.add_node(n, **attrs): a new node gets attrs, an existing node has
\* its dict updated with attrs.
nx_add_node(G, n, attrs) ==
    IF n \in DOMAIN G.nodes
    THEN [G EXCEPT !.nodes = [@ EXCEPT ![n] = attrs @@ @]]
    ELSE [G EXCEPT !.nodes = (n :> attrs) @@ @]

\* DiGraph.add_edge(u, v, relation=rel): missing endpoints are created with
\* an empty attribute dict; the data of the edge u -> v is updated.
nx_add_edge_bare(G, u, v, rel) ==
    [nodes |-> G.nodes, adj |-> (<<u, v>> :> rel) @@ G.adj]

nx_add_edge(G, u, v, rel) ==
    LET withU == IF u \in DOMAIN G.nodes THEN G.nodes ELSE (u :> EmptyDict) @@ G.nodes
        withV == IF v \in DOMAIN withU THEN withU ELSE (v :> EmptyDict) @@ withU
    IN  [nodes |-> withV, adj |-> (<<u, v>> :> rel) @@ G.adj]

\* dict.get(key, "")
Get(d, k) == IF k \in DOMAIN d THEN d[k] ELSE ""

NodeIds(G) == DOMAIN G.nodes

\* the edges of G as (src, dest, relation) triples
Triples(G) == {<<e[1], e[2], G.adj[e]>> : e \in DOMAIN G.adj}

(***************************************************************************)
(* os.path on segment sequences.                                           *)
(***************************************************************************)
RECURSIVE rstrip_slash(_)
rstrip_slash(p) ==
    IF Len(p) > 1 /\ p[Len(p)] = "" THEN rstrip_slash(SubSeq(p, 1, Len(p) - 1)) ELSE p

\* os.path.dirname: everything before the last '/', trailing slashes removed
\* unless the head is made of slashes only.
dirname(p) ==
    IF Len(p) <= 1 THEN <<"">>
    ELSE LET head == SubSeq(p, 1, Len(p) - 1)
         IN  IF \A i \in 1..Len(head) : head[i] = ""
             THEN Append(head, "")
             ELSE rstrip_slash(head)

\* os.path.join(root, name) for a name without '/'
path_join(root, name) == Append(root, name)

\* os.path.basename(os.path.normpath(p)) for a path without "." and ".."
basename_normpath(p) ==
    LET q == rstrip_slash(p) IN <<q[Len(q)]>>

(***************************************************************************)
(* The heap holds the two graph objects; ref names the one a function      *)
(* received as its graph argument.                                         *)
(***************************************************************************)
Heap == [repo_graph |-> repo_graph, test_graph |-> test_graph]

\* main.py:136-150
add_commit(h, commit_hash, timestamp, author, message, ref) ==
    [h EXCEPT ![ref] = nx_add_node(@, commit_hash,
        [node_type |-> COMMIT, timestamp |-> timestamp,
         author |-> author, message |-> message])]

\* main.py:153-165
add_file(h, file_path, commit_hash) ==
    LET g1 == IF file_path \notin NodeIds(h.repo_graph)
              THEN nx_add_node(h.repo_graph, file_path, [node_type |-> FILE])
              ELSE h.repo_graph
    IN  [h EXCEPT !.repo_graph = nx_add_edge(g1, commit_hash, file_path, "modifies")]

\* main.py:168-177
add_folder_inverted(h, folder_path) ==
    IF folder_path \in NodeIds(h.repo_graph)
    THEN [h EXCEPT !.repo_graph = nx_add_node(@, folder_path, [node_type |-> FOLDER])]
    ELSE h

add_folder(h, folder_path) ==
    IF folder_path \notin NodeIds(h.repo_graph)
    THEN [h EXCEPT !.repo_graph = nx_add_node(@, folder_path, [node_type |-> FOLDER])]
    ELSE h

add_file_to_folder_modifies(h, file_path) ==
    LET folder_path == dirname(file_path)
        h1 == add_folder(h, folder_path)
    IN  [h1 EXCEPT !.repo_graph = nx_add_edge(@, folder_path, file_path, "modifies")]

\* main.py:180-190
add_file_to_folder(h, file_path) ==
    LET folder_path == dirname(file_path)
        h1 == add_folder(h, folder_path)
    IN  [h1 EXCEPT !.repo_graph = nx_add_edge(@, folder_path, file_path, "contains")]

\* main.py:193-206
add_reference(h, src_file, dest_file) ==
    LET g1 == IF src_file \notin NodeIds(h.repo_graph)
              THEN nx_add_node(h.repo_graph, src_file, [node_type |-> FILE])
              ELSE h.repo_graph
        g2 == IF dest_file \notin NodeIds(g1)
              THEN nx_add_node(g1, dest_file, [node_type |-> FILE])
              ELSE g1
    IN  [h EXCEPT !.repo_graph = nx_add_edge(g2, src_file, dest_file, "references")]

\* main.py:209-220
add_repository(h, repo_id, ref) ==
    [h EXCEPT ![ref] = nx_add_node(@, repo_id, [node_type |-> REPOSITORY])]


(***************************************************************************)
(* The file system under repos_path, as os.listdir, os.path.isdir,         *)
(* os.path.exists and os.walk report it.                                   *)
(*   /p/a   .git/HEAD  m.zig  d/t.txt                                      *)
(*   /p/b   .git/HEAD  k.zig                                               *)
(*   /p/x   (a directory without .git)                                     *)
(*   /p/f   (a plain file)                                                 *)
(***************************************************************************)
repos_path == <<"", "p">>

ListDir == {"a", "b", "x", "f"}

RepoA == path_join(repos_path, "a")
RepoB == path_join(repos_path, "b")

Dirs == {repos_path, RepoA, path_join(RepoA, ".git"), path_join(RepoA, "d"),
         RepoB, path_join(RepoB, ".git"), path_join(repos_path, "x")}

Files == {path_join(path_join(RepoA, ".git"), "HEAD"), path_join(RepoA, "m.zig"),
          path_join(path_join(RepoA, "d"), "t.txt"),
          path_join(path_join(RepoB, ".git"), "HEAD"), path_join(RepoB, "k.zig"),
          path_join(repos_path, "f")}

isdir(p) == p \in Dirs
exists(p) == p \in Dirs \cup Files

QualifiesAnyDir(repo_name, signature) == isdir(path_join(repos_path, repo_name))

\* the test of main.py:303, 368 and 405
Qualifies(repo_name, signature) ==
    LET repo_dir == path_join(repos_path, repo_name)
    IN  isdir(repo_dir) /\ exists(path_join(repo_dir, signature))

Repos == {path_join(repos_path, n) : n \in {m \in ListDir : Qualifies(m, ".git")}}

\* os.walk(repo_path): (root, dirs, files) triples, top down
os_walk(repo_path) ==
    IF repo_path = RepoA
    THEN << [root |-> RepoA, dirs |-> <<".git", "d">>, files |-> <<"m.zig">>],
            [root |-> path_join(RepoA, ".git"), dirs |-> <<>>, files |-> <<"HEAD">>],
            [root |-> path_join(RepoA, "d"), dirs |-> <<>>, files |-> <<"t.txt">>] >>
    ELSE IF repo_path = RepoB
    THEN << [root |-> RepoB, dirs |-> <<".git">>, files |-> <<"k.zig">>],
            [root |-> path_join(RepoB, ".git"), dirs |-> <<>>, files |-> <<"HEAD">>] >>
    ELSE <<>>

\* file.endswith('.zig')
ZigNames == {"m.zig", "k.zig"}
endswith_zig(file) == file \in ZigNames

ZigFiles == {path_join(RepoA, "m.zig"), path_join(RepoB, "k.zig")}

(***************************************************************************)
(* Outcomes of the external commands and of reading a file.                *)
(* A remote URL is a sequence of tokens; the tokens "git@", "https:", ":", *)
(* "/" and ".git" are the substrings get_repository_id looks for.  A log   *)
(* line is the sequence of its '|'-separated fields.  A file's content is  *)
(* the list re.findall returns for the @import pattern.                    *)
(* An outcome that is not ok names the exception the call raised:          *)
(* subprocess.run(check=True) raises CalledProcessError when the command   *)
(* exits with a non-zero status, and with text=True it raises              *)
(* UnicodeDecodeError when the command's output is not valid UTF-8.  For a *)
(* file read the handler of main.py:328 does not tell the classes apart.   *)
(***************************************************************************)
Failed == [ok |-> FALSE, out |-> <<>>, exc |-> "CalledProcessError"]
Undecodable == [ok |-> FALSE, out |-> <<>>, exc |-> "UnicodeDecodeError"]
Ok(v) == [ok |-> TRUE, out |-> v, exc |-> ""]

SshUrl == <<"git@", "github.com", ":", "user", "/", "repo", ".git">>
HttpsUrl == <<"https:", "/", "/", "github.com", "/", "user", "/", "repo">>
HttpsGitUrl == <<"https:", "/", "/", "github.com", "/", "user", "/", "repo", ".git">>
SshShortUrl == <<"git@", "host", ":", "a", ".git">>
SshNoColonUrl == <<"git@", "host">>
LocalUrl == <<"/", "srv", "/", "repo">>

Line1 == <<"c1", "100", "Alice", "init">>
Line2 == <<"c2c2c2c2c2", "200", "Bob", "fix">>
Line2Short == <<"c2c2c2c2c2", "200">>
Line3Long == <<"c3", "300", "Eve", "a", "b">>

\* a string without '/' used as a node id
ToId(s) == <<s>>

StdImport == <<"std">>
NameImport == <<"a">>
PathImport == <<"d", "t.zig">>

RemoteChoices == [ a : {Failed, Ok(SshUrl), Ok(HttpsUrl)},
                   b : {Failed, Ok(SshUrl)} ]

LogChoices == [ a : {Failed, Ok(<<Line1, Line2Short>>), Ok(<<Line1, Line2>>)},
                b : {Undecodable, Ok(<<Line1>>), Ok(<<Line3Long, Line2>>)} ]

ContentChoices == [ m : {Failed, Ok(<<StdImport, NameImport, StdImport>>)},
                    k : {Ok(<<>>), Ok(<<PathImport>>)} ]

ByRepo(c) == (RepoA :> c.a) @@ (RepoB :> c.b)
ByFile(c) == (path_join(RepoA, "m.zig") :> c.m) @@ (path_join(RepoB, "k.zig") :> c.k)

(***************************************************************************)
(* get_repository_id, main.py:224-253.                                     *)
(***************************************************************************)
RECURSIVE concat(_)
concat(toks) == IF toks = <<>> THEN "" ELSE Head(toks) \o concat(Tail(toks))

HasToken(toks, t) == \E i \in 1..Len(toks) : toks[i] = t
FirstToken(toks, t) == CHOOSE i \in 1..Len(toks) : toks[i] = t /\ \A j \in 1..(i-1) : toks[j] # t

\* str.split("/")
RECURSIVE split_slash(_)
split_slash(toks) ==
    IF ~HasToken(toks, "/") THEN <<toks>>
    ELSE LET i == FirstToken(toks, "/")
         IN  <<SubSeq(toks, 1, i - 1)>> \o split_slash(SubSeq(toks, i + 1, Len(toks)))

\* s[:-4] if s.endswith(".git") else s
strip_git_keep(toks) == toks

strip_git(toks) ==
    IF Len(toks) > 0 /\ toks[Len(toks)] = ".git" THEN SubSeq(toks, 1, Len(toks) - 1) ELSE toks

get_repository_id(repo_path, remote_result) ==
    LET fallback == basename_normpath(repo_path)
        url == remote_result.out
        ssh == Len(url) >= 1 /\ url[1] = "git@"
        https == Len(url) >= 3 /\ url[1] = "https:" /\ url[2] = "/" /\ url[3] = "/"
        path_part == strip_git(SubSeq(url, FirstToken(url, ":") + 1, Len(url)))
        https_parts == split_slash(url)
        parts == IF ssh THEN split_slash(path_part)
                 ELSE IF https
                 THEN [https_parts EXCEPT ![Len(https_parts)] = strip_git(@)]
                 ELSE <<>>
    IN  IF ~remote_result.ok THEN fallback                    \* check=True raised
        ELSE IF ssh /\ ~HasToken(url, ":") THEN fallback      \* IndexError, caught
        ELSE IF Len(parts) >= 2
             THEN <<concat(parts[Len(parts) - 1]), concat(parts[Len(parts)])>>
             ELSE fallback

(***************************************************************************)
(* process_commits, main.py:256-273.                                       *)
(***************************************************************************)
RECURSIVE commit_lines_atleast(_, _, _, _)
commit_lines_atleast(h, lines, repo_id, ref) ==
    IF lines = <<>> THEN h
    ELSE LET commit_data == Head(lines)
             h1 == IF Len(commit_data) >= 4
                   THEN LET commit_hash == ToId(commit_data[1])
                            h0 == add_commit(h, commit_hash, commit_data[2],
                                             commit_data[3], commit_data[4], ref)
                        IN  [h0 EXCEPT ![ref] =
                                nx_add_edge(@, repo_id, commit_hash, "has_commit")]
                   ELSE h
         IN  commit_lines_atleast(h1, Tail(lines), repo_id, ref)

RECURSIVE commit_lines(_, _, _, _)
commit_lines(h, lines, repo_id, ref) ==
    IF lines = <<>> THEN h
    ELSE LET commit_data == Head(lines)
             h1 == IF Len(commit_data) = 4
                   THEN LET commit_hash == ToId(commit_data[1])
                            h0 == add_commit(h, commit_hash, commit_data[2],
                                             commit_data[3], commit_data[4], ref)
                        IN  [h0 EXCEPT ![ref] =
                                nx_add_edge(@, repo_id, commit_hash, "has_commit")]
                   ELSE h
         IN  commit_lines(h1, Tail(lines), repo_id, ref)

\* the graphs as process_commits leaves them, on return or when it raises
process_commits(h, log_result, repo_id, ref) ==
    LET git_log_output == IF log_result.ok THEN log_result.out ELSE <<>>
    IN  commit_lines(h, git_log_output, repo_id, ref)

\* main.py:262-266: only subprocess.CalledProcessError is handled, any other
\* exception of subprocess.run leaves process_commits
process_commits_raises_all(log_result) == ~log_result.ok

process_commits_raises(log_result) ==
    ~log_result.ok /\ log_result.exc # "CalledProcessError"

(***************************************************************************)
(* analyze_zig_file, main.py:307-329.  The loop runs over a set; its steps *)
(* write the same node_type to every node and distinct edges, so the order *)
(* does not show in the result.                                            *)
(***************************************************************************)
Range(s) == {s[i] : i \in 1..Len(s)}

RECURSIVE add_imports_untyped(_, _, _, _)
add_imports_untyped(G, file_path, imports, done) ==
    IF imports = done THEN G
    ELSE LET imp == CHOOSE i \in imports \ done : TRUE
             g1 == nx_add_node(G, file_path, [node_type |-> FILE])
             g3 == nx_add_edge(g1, file_path, imp, "references")
         IN  add_imports_untyped(g3, file_path, imports, done \cup {imp})

RECURSIVE add_imports(_, _, _, _)
add_imports(G, file_path, imports, done) ==
    IF imports = done THEN G
    ELSE LET imp == CHOOSE i \in imports \ done : TRUE
             g1 == nx_add_node(G, file_path, [node_type |-> FILE])
             g2 == nx_add_node(g1, imp, [node_type |-> FILE])
             g3 == nx_add_edge(g2, file_path, imp, "references")
         IN  add_imports(g3, file_path, imports, done \cup {imp})

analyze_zig_file_recording(h, file_path, read_result, ref) ==
    IF ~read_result.ok
    THEN [h EXCEPT ![ref] = nx_add_node(@, file_path, [node_type |-> FILE])]
    ELSE [h EXCEPT ![ref] = add_imports(@, file_path, Range(read_result.out), {})]

analyze_zig_file(h, file_path, read_result, ref) ==
    IF ~read_result.ok THEN h        \* open or read raised: logged, nothing added
    ELSE [h EXCEPT ![ref] = add_imports(@, file_path, Range(read_result.out), {})]

(***************************************************************************)
(* process_repository_files, main.py:332-354.                              *)
(***************************************************************************)
RECURSIVE scan_dirs(_, _, _)
scan_dirs(h, root, dirs) ==
    IF dirs = <<>> THEN h
    ELSE scan_dirs(add_folder(h, path_join(root, Head(dirs))), root, Tail(dirs))

RECURSIVE scan_files(_, _, _, _, _)
scan_files(h, root, files, reads, ref) ==
    IF files = <<>> THEN h
    ELSE LET file == Head(files)
             file_path == path_join(root, file)
             h1 == add_file_to_folder(h, file_path)
             h2 == IF endswith_zig(file)
                   THEN analyze_zig_file(h1, file_path, reads[file_path], ref)
                   ELSE h1
         IN  scan_files(h2, root, Tail(files), reads, ref)

RECURSIVE scan_walk(_, _, _, _)
scan_walk(h, walk, reads, ref) ==
    IF walk = <<>> THEN h
    ELSE LET w == Head(walk)
             h1 == add_folder(h, w.root)
             h2 == scan_dirs(h1, w.root, w.dirs)
             h3 == scan_files(h2, w.root, w.files, reads, ref)
         IN  scan_walk(h3, Tail(walk), reads, ref)

process_repository_files(h, repo_path, reads, ref) ==
    scan_walk(h, os_walk(repo_path), reads, ref)

(***************************************************************************)
(* process_repository, main.py:276-294.  W is the inspector's outcomes.    *)
(* The value is the graphs as process_repository leaves them: when         *)
(* process_commits raises at main.py:285 the statements after it do not    *)
(* run.                                                                    *)
(***************************************************************************)
process_repository(h, repo_path, W, ref) ==
    LET repo_id == get_repository_id(repo_path, W.remote[repo_path])
        h1 == add_repository(h, repo_id, ref)
        h2 == process_commits(h1, W.gitlog[repo_path], repo_id, ref)
        h3 == process_repository_files(h2, repo_path, W.content, ref)
    IN  IF process_commits_raises(W.gitlog[repo_path]) THEN h1
        ELSE process_commits(h3, W.gitlog[repo_path], repo_id, ref)

Inspector == [remote |-> remote, gitlog |-> gitlog, content |-> content]


(***************************************************************************)
(* The SQLite store.  nodes maps an id (PRIMARY KEY) to its row; edges is  *)
(* the set of (src, dest, relation) rows (PRIMARY KEY over all three).     *)
(***************************************************************************)
EmptyStore == [schema |-> FALSE,
               nodes |-> [n \in {} |-> [type |-> "", timestamp |-> "",
                                        author |-> "", message |-> ""]],
               edges |-> {}]

\* main.py:28-63: CREATE TABLE IF NOT EXISTS leaves existing rows alone
init_db(s) == [s EXCEPT !.schema = TRUE]

\* main.py:75-84: one row per node, a missing attribute written as ''
node_row(d) == [type |-> Get(d, "node_type"), timestamp |-> Get(d, "timestamp"),
                author |-> Get(d, "author"), message |-> Get(d, "message")]

node_data_typed(G) ==
    [n \in {m \in NodeIds(G) : "node_type" \in DOMAIN G.nodes[m]} |-> node_row(G.nodes[n])]

node_data(G) == [n \in NodeIds(G) |-> node_row(G.nodes[n])]

edge_data_structure(G) == {t \in Triples(G) : t[3] # "has_commit"}

\* main.py:91-98
edge_data(G) == Triples(G)

\* main.py:86-89: INSERT OR IGNORE INTO nodes
insert_or_replace_nodes(tbl, rows) == [tbl |-> rows @@ tbl, ok |-> TRUE]

insert_or_ignore_nodes(tbl, rows) == [tbl |-> tbl @@ rows, ok |-> TRUE]

\* main.py:100-103: INSERT OR IGNORE INTO edges
insert_or_ignore_edges(tbl, rows) == [tbl |-> tbl \cup rows, ok |-> TRUE]

save_graph_to_db_creating(G, s) ==
    [store |-> [s EXCEPT !.schema = TRUE,
                         !.nodes = insert_or_ignore_nodes(s.nodes, node_data(G)).tbl,
                         !.edges = insert_or_ignore_edges(s.edges, edge_data(G)).tbl],
     ok |-> TRUE]

\* main.py:66-106.  Without the tables execute raises; an exception before
\* conn.commit() leaves the file as it was.  executemany runs only for a
\* non-empty list (main.py:85, 99): for an empty graph no statement is executed.
save_graph_to_db(G, s) ==
    LET n == insert_or_ignore_nodes(s.nodes, node_data(G))
        e == insert_or_ignore_edges(s.edges, edge_data(G))
    IN  IF NodeIds(G) = {} /\ edge_data(G) = {}
        THEN [store |-> s, ok |-> TRUE]
        ELSE IF s.schema /\ n.ok /\ e.ok
        THEN [store |-> [s EXCEPT !.nodes = n.tbl, !.edges = e.tbl], ok |-> TRUE]
        ELSE [store |-> s, ok |-> FALSE]

\* main.py:118-125
row_attrs_mixed(row) == [node_type |-> row.type, timestamp |-> row.timestamp,
                         author |-> row.message, message |-> row.author]

row_attrs(row) == [node_type |-> row.type, timestamp |-> row.timestamp,
                   author |-> row.author, message |-> row.message]

RECURSIVE load_nodes(_, _, _)
load_nodes(G, tbl, done) ==
    IF DOMAIN tbl = done THEN G
    ELSE LET node_id == CHOOSE n \in DOMAIN tbl \ done : TRUE
         IN  load_nodes(nx_add_node(G, node_id, row_attrs(tbl[node_id])), tbl,
                        done \cup {node_id})

\* main.py:127-130.  SELECT without ORDER BY: of the rows of one (src, dest)
\* the one fetched last sets the relation; latest[<<src, dest>>] is that row's
\* relation.
Pairs(rows) == {<<t[1], t[2]>> : t \in rows}

RelationsOf(rows, e) == {t[3] : t \in {x \in rows : x[1] = e[1] /\ x[2] = e[2]}}

Contested(rows) == {e \in Pairs(rows) : Cardinality(RelationsOf(rows, e)) > 1}

LastFetched(rows) ==
    {[e \in Pairs(rows) |-> IF e \in Contested(rows) THEN g[e]
                            ELSE CHOOSE r \in RelationsOf(rows, e) : TRUE] :
        g \in {f \in [Contested(rows) -> Relations] :
                  \A e \in Contested(rows) : f[e] \in RelationsOf(rows, e)}}

RECURSIVE load_edges_swapped(_, _, _)
load_edges_swapped(G, latest, done) ==
    IF DOMAIN latest = done THEN G
    ELSE LET e == CHOOSE x \in DOMAIN latest \ done : TRUE
         IN  load_edges_swapped(nx_add_edge(G, e[2], e[1], latest[e]), latest, done \cup {e})

RECURSIVE load_edges(_, _, _)
load_edges(G, latest, done) ==
    IF DOMAIN latest = done THEN G
    ELSE LET e == CHOOSE x \in DOMAIN latest \ done : TRUE
         IN  load_edges(nx_add_edge(G, e[1], e[2], latest[e]), latest, done \cup {e})

\* main.py:109-132
load_graph_from_db(G, s, latest) ==
    IF s.schema
    THEN [graph |-> load_edges(load_nodes(G, s.nodes, {}), latest, {}), ok |-> TRUE]
    ELSE [graph |-> G, ok |-> FALSE]

(***************************************************************************)
(* get_commits_for_repo, main.py:410-443.                                  *)
(***************************************************************************)
\* id[:n] for an id written as its '/'-separated segments
str_prefix_whole(id, n) == id

RECURSIVE str_prefix(_, _)
str_prefix(id, n) ==
    IF Len(Head(id)) >= n THEN <<SubSeq(Head(id), 1, n)>>
    ELSE IF Len(id) = 1 THEN id
    ELSE <<Head(id)>> \o str_prefix(Tail(id), n - Len(Head(id)) - 1)

\* the rows of nodes JOIN edges ON n.id = e.dest that pass the WHERE clause,
\* each as <<n.id, e>>
joined_rows(repo_id, s) ==
    {<<e[2], e>> : e \in {x \in s.edges :
                            /\ x[2] \in DOMAIN s.nodes
                            /\ x[1] = repo_id
                            /\ x[3] = "has_commit"
                            /\ s.nodes[x[2]].type = COMMIT}}

\* the list of dicts, one per fetched row (a function of the rows, as the
\* order of fetchall is not fixed); without the tables execute raises
get_commits_for_repo(repo_id, s) ==
    IF ~s.schema THEN [ok |-> FALSE, commits |-> <<>>]
    ELSE [ok |-> TRUE,
          commits |-> [row \in joined_rows(repo_id, s) |->
                          [commit |-> str_prefix(row[1], 7),
                           timestamp |-> s.nodes[row[1]].timestamp,
                           author |-> s.nodes[row[1]].author,
                           message |-> s.nodes[row[1]].message]]]

(***************************************************************************)
(* Stores an earlier process can have left at db_path.                     *)
(***************************************************************************)
Hash1 == ToId("c1")
MZig == path_join(RepoA, "m.zig")

Saved(G, s) == save_graph_to_db(G, init_db(s)).store

EmptyHeap == [repo_graph |-> EmptyGraph, test_graph |-> EmptyGraph]

GraphModifies == add_file(EmptyHeap, MZig, Hash1).repo_graph
GraphReferences ==
    add_reference([EmptyHeap EXCEPT !.repo_graph = GraphModifies], Hash1, MZig).repo_graph
GraphCommit ==
    process_commits(add_repository(EmptyHeap, ToId("a"), "repo_graph"),
                    Ok(<<Line1>>), ToId("a"), "repo_graph").repo_graph

StoresLeft == {EmptyStore, init_db(EmptyStore), Saved(GraphCommit, EmptyStore),
               Saved(GraphReferences, Saved(GraphModifies, EmptyStore))}


(***************************************************************************)
(* Operations called one at a time, in any order, by a process that found  *)
(* one of StoresLeft at db_path.                                           *)
(***************************************************************************)
\* the .zig file at the top of a repository
FirstZig(repo_path) == IF repo_path = RepoA THEN MZig ELSE path_join(RepoB, "k.zig")

\* (repository, graph argument) pairs the operations are called with
Calls == {<<RepoA, "repo_graph">>, <<RepoB, "repo_graph">>, <<RepoA, "test_graph">>}

SetHeap(h) == repo_graph' = h.repo_graph /\ test_graph' = h.test_graph

Ran(name, okv, freshv) ==
    /\ pc = "api"
    /\ ops < MaxOps
    /\ ops' = ops + 1
    /\ last' = [op |-> name, ok |-> okv, fresh |-> freshv]
    /\ args' = <<>>
    /\ ret' = <<>>
    /\ UNCHANGED <<world, pc, todo, cycles, savedGraph, call_order>>

InitDb ==
    /\ store' = init_db(store)
    /\ UNCHANGED <<repo_graph, test_graph>>
    /\ Ran("init_db", TRUE, FALSE)

SaveGraphToDb ==
    LET r == save_graph_to_db(repo_graph, store)
    IN  /\ store' = r.store
        /\ UNCHANGED <<repo_graph, test_graph>>
        /\ Ran("save", r.ok, FALSE)

LoadGraphFromDb ==
    \E latest \in LastFetched(store.edges) :
        LET r == load_graph_from_db(repo_graph, store, latest)
        IN  /\ repo_graph' = r.graph
            /\ UNCHANGED <<test_graph, store>>
            /\ Ran("load", r.ok, repo_graph = EmptyGraph)

AddCommit ==
    \E timestamp \in {"100", "999"} :
        /\ SetHeap(add_commit(Heap, Hash1, timestamp, "Alice", "init", "repo_graph"))
        /\ UNCHANGED store
        /\ Ran("add_commit", TRUE, FALSE)

AddFile ==
    /\ SetHeap(add_file(Heap, MZig, Hash1))
    /\ UNCHANGED store
    /\ Ran("add_file", TRUE, FALSE)

AddFolder ==
    /\ SetHeap(add_folder(Heap, RepoA))
    /\ UNCHANGED store
    /\ Ran("add_folder", TRUE, FALSE)

AddFileToFolder ==
    /\ SetHeap(add_file_to_folder(Heap, MZig))
    /\ UNCHANGED store
    /\ Ran("add_file_to_folder", TRUE, FALSE)

AddReference ==
    \E src_file \in {MZig, Hash1} :
        /\ SetHeap(add_reference(Heap, src_file, IF src_file = Hash1 THEN MZig ELSE StdImport))
        /\ UNCHANGED store
        /\ Ran("add_reference", TRUE, FALSE)

AddRepository ==
    \E ref \in GraphRefs :
        /\ SetHeap(add_repository(Heap, ToId("a"), ref))
        /\ UNCHANGED store
        /\ Ran("add_repository", TRUE, FALSE)

AnalyzeZigFile ==
    \E call \in Calls :
      LET file_path == FirstZig(call[1])
          ref == call[2]
      IN
        /\ SetHeap(analyze_zig_file(Heap, file_path, content[file_path], ref))
        /\ UNCHANGED store
        /\ Ran("analyze_zig_file", content[FirstZig(call[1])].ok, FALSE)

ProcessCommits ==
    \E call \in Calls :
      LET repo_path == call[1]
          ref == call[2]
      IN
        /\ SetHeap(process_commits(Heap, gitlog[repo_path],
                                   get_repository_id(repo_path, remote[repo_path]), ref))
        /\ UNCHANGED store
        /\ Ran("process_commits", ~process_commits_raises(gitlog[repo_path]), FALSE)

ProcessRepositoryFiles ==
    \E call \in Calls :
      LET repo_path == call[1]
          ref == call[2]
      IN
        /\ SetHeap(process_repository_files(Heap, repo_path, content, ref))
        /\ UNCHANGED store
        /\ Ran("process_repository_files", TRUE, FALSE)

ProcessRepository ==
    \E call \in Calls :
      LET repo_path == call[1]
          ref == call[2]
      IN
        /\ SetHeap(process_repository(Heap, repo_path, Inspector, ref))
        /\ UNCHANGED store
        /\ Ran("process_repository", ~process_commits_raises(gitlog[repo_path]), FALSE)

\* repository ids a request can name: those the model's repositories resolve
\* to and one no repository has
QueryIds == {ToId("a"), <<"user", "repo">>, ToId("nobody")}

\* GET /repos/{repo_id}/commits
GetCommitsForRepo ==
    \E repo_id \in QueryIds :
        LET r == get_commits_for_repo(repo_id, store)
        IN  /\ pc = "api"
            /\ ops < MaxOps
            /\ ops' = ops + 1
            /\ last' = [op |-> "query", ok |-> r.ok, fresh |-> FALSE]
            /\ args' = <<repo_id>>
            /\ ret' = r.commits
            /\ UNCHANGED <<repo_graph, test_graph, store, world, pc, todo, cycles,
                           savedGraph, call_order>>

NoOp == [op |-> "none", ok |-> TRUE, fresh |-> FALSE]

ApiRemote == [ a : {Failed, Ok(SshUrl)}, b : {Ok(HttpsUrl)} ]
ApiLog == [ a : {Ok(<<Line1, Line2Short>>)}, b : {Ok(<<Line3Long, Line2>>)} ]
ApiContent == [ m : {Ok(<<StdImport, NameImport, StdImport>>)}, k : {Failed} ]

Init ==
    /\ repo_graph = EmptyGraph
    /\ test_graph = EmptyGraph
    /\ store \in StoresLeft
    /\ \E c \in ApiRemote : remote = ByRepo(c)
    /\ \E c \in ApiLog : gitlog = ByRepo(c)
    /\ \E c \in ApiContent : content = ByFile(c)
    /\ last = NoOp
    /\ ops = 0
    /\ pc = "api"
    /\ todo = {}
    /\ cycles = 0
    /\ savedGraph = EmptyGraph
    /\ args = <<>>
    /\ ret = <<>>
    /\ call_order = <<>>

Next ==
    \/ InitDb
    \/ SaveGraphToDb
    \/ LoadGraphFromDb
    \/ AddCommit
    \/ AddFile
    \/ AddFolder
    \/ AddFileToFolder
    \/ AddReference
    \/ AddRepository
    \/ AnalyzeZigFile
    \/ ProcessCommits
    \/ ProcessRepositoryFiles
    \/ ProcessRepository
    \/ GetCommitsForRepo

Spec == Init /\ [][Next]_vars

(***************************************************************************)
(* main_entry, main.py:449-459, one statement at a time; the two loops     *)
(* over os.listdir (main.py:301-304 and 366-369) visit the entries in the  *)
(* order the system lists them.  After uvicorn.run the process serves      *)
(* until it is stopped and started again on the same store.                *)
(***************************************************************************)
ignore_cleaning == TRUE

MainStep(from, to) ==
    /\ pc = from
    /\ pc' = to
    /\ UNCHANGED <<world, last, ops, args, ret>>

\* what a recording stand-in for the callee notes down (tests/test_init.py:18-37)
Called(name) == call_order' = Append(call_order, <<name>>)

\* the same for the function that a directory loop applies to one entry
Applied(name, repo_path) == call_order' = Append(call_order, <<name, repo_path>>)

MainInitDb ==
    /\ MainStep("init_db", "load")
    /\ store' = init_db(store)
    /\ Called("init_db")
    /\ UNCHANGED <<repo_graph, test_graph, todo, cycles, savedGraph>>

MainLoad ==
    /\ MainStep("load", "clean")
    /\ \E latest \in LastFetched(store.edges) :
           repo_graph' = load_graph_from_db(repo_graph, store, latest).graph
    /\ Called("load_graph_from_db")
    /\ UNCHANGED <<test_graph, store, todo, cycles, savedGraph>>

\* clean_all_repositories(path=repos_path, ignore=ignore_cleaning), main.py:392-406
MainClean ==
    /\ MainStep("clean", "process")
    /\ ignore_cleaning
    /\ Called("clean_all_repositories")
    /\ todo' = ListDir
    /\ UNCHANGED <<repo_graph, test_graph, store, cycles, savedGraph>>

\* process_repositories, main.py:297-304.  An exception that leaves
\* process_repository is handled nowhere up to main_entry: the process ends.
MainProcess ==
    /\ pc = "process"
    /\ \E repo_name \in todo :
        LET repo_path == path_join(repos_path, repo_name)
        IN  /\ todo' = todo \ {repo_name}
            /\ IF Qualifies(repo_name, ".git")
               THEN /\ SetHeap(process_repository(Heap, repo_path, Inspector, "repo_graph"))
                    /\ Applied("process_repository", repo_path)
                    /\ pc' = IF process_commits_raises(gitlog[repo_path])
                             THEN "aborted" ELSE "process"
               ELSE /\ UNCHANGED <<repo_graph, test_graph, call_order>>
                    /\ pc' = "process"
    /\ UNCHANGED <<world, last, ops, args, ret, store, cycles, savedGraph>>

MainProcessDone ==
    /\ MainStep("process", "walk")
    /\ todo = {}
    /\ todo' = ListDir
    /\ Called("process_repositories")
    /\ UNCHANGED <<repo_graph, test_graph, store, cycles, savedGraph>>

\* walk_repos(repos_path, repo_graph, ".git", process_repository_files), main.py:357-369
MainWalk ==
    /\ MainStep("walk", "walk")
    /\ \E repo_name \in todo :
        /\ todo' = todo \ {repo_name}
        /\ IF Qualifies(repo_name, ".git")
           THEN /\ SetHeap(process_repository_files(Heap, path_join(repos_path, repo_name),
                                                    content, "repo_graph"))
                /\ Applied("process_repository_files", path_join(repos_path, repo_name))
           ELSE UNCHANGED <<repo_graph, test_graph, call_order>>
    /\ UNCHANGED <<store, cycles, savedGraph>>

MainWalkDoneUnsaved ==
    /\ MainStep("walk", "serve")
    /\ todo = {}
    /\ Called("walk_repos")
    /\ UNCHANGED <<repo_graph, test_graph, store, todo, cycles, savedGraph>>

MainWalkDone ==
    /\ MainStep("walk", "save")
    /\ todo = {}
    /\ Called("walk_repos")
    /\ UNCHANGED <<repo_graph, test_graph, store, todo, cycles, savedGraph>>

MainSave ==
    /\ MainStep("save", "serve")
    /\ store' = save_graph_to_db(repo_graph, store).store
    /\ savedGraph' = repo_graph
    /\ cycles' = cycles + 1
    /\ Called("save_graph_to_db")
    /\ UNCHANGED <<repo_graph, test_graph, todo>>

\* uvicorn.run(app, ...), main.py:459: the server answers
\* GET /repos/{repo_id}/commits (main.py:410-443) for as long as it runs
MainQuery ==
    /\ pc = "serve"
    /\ \E repo_id \in QueryIds :
           /\ args' = <<repo_id>>
           /\ ret' = get_commits_for_repo(repo_id, store).commits
    /\ UNCHANGED <<repo_graph, test_graph, store, world, last, ops, pc, todo, cycles,
                   savedGraph, call_order>>

\* the serving process is stopped and main_entry is started in a new process
Restart ==
    /\ pc = "serve"
    /\ pc' = "init_db"
    /\ cycles < MaxCycles
    /\ repo_graph' = EmptyGraph
    /\ test_graph' = EmptyGraph
    /\ args' = <<>>
    /\ ret' = <<>>
    /\ call_order' = <<>>
    /\ UNCHANGED <<store, world, last, ops, todo, cycles, savedGraph>>

InitMain ==
    /\ repo_graph = EmptyGraph
    /\ test_graph = EmptyGraph
    /\ store = EmptyStore
    /\ \E c \in RemoteChoices : remote = ByRepo(c)
    /\ \E c \in LogChoices : gitlog = ByRepo(c)
    /\ \E c \in ContentChoices : content = ByFile(c)
    /\ last = NoOp
    /\ ops = 0
    /\ pc = "init_db"
    /\ todo = {}
    /\ cycles = 0
    /\ savedGraph = EmptyGraph
    /\ args = <<>>
    /\ ret = <<>>
    /\ call_order = <<>>

NextMain ==
    \/ MainInitDb
    \/ MainLoad
    \/ MainClean
    \/ MainProcess
    \/ MainProcessDone
    \/ MainWalk
    \/ MainWalkDone
    \/ MainSave
    \/ MainQuery
    \/ Restart

SpecMain == InitMain /\ [][NextMain]_vars


(***************************************************************************)
(* get_repository_id called on its own, on every repository path of        *)
(* IdPaths and every outcome of `git remote get-url origin` of             *)
(* RemoteShapes.  A shape lists what a URL is made of; remote_url writes   *)
(* the URL out, the string get_repository_id is handed.                    *)
(***************************************************************************)
\* "/p/a", "/p/b/" and the root directory "/"
IdPaths == {RepoA, Append(RepoB, ""), <<"", "">>}

\* the '/'-separated segments after the host
SegChoices == {<<"repo">>, <<"user", "repo">>, <<"org", "user", "repo">>}

RemoteShapes ==
    [kind : {"ssh"}, user : {"git@", "alice@"}, segs : SegChoices, dotgit : BOOLEAN]
    \cup [kind : {"https"}, user : {""}, segs : SegChoices \cup {<<>>}, dotgit : BOOLEAN]
    \cup [kind : {"nocolon", "local", "failed"}, user : {""}, segs : {<<>>}, dotgit : {FALSE}]

RECURSIVE join_slash(_)
join_slash(segs) ==
    IF segs = <<>> THEN <<>>
    ELSE IF Len(segs) = 1 THEN <<Head(segs)>>
    ELSE <<Head(segs), "/">> \o join_slash(Tail(segs))

remote_url(shape) ==
    LET suffix == IF shape.dotgit THEN <<".git">> ELSE <<>>
    IN  CASE shape.kind = "ssh" ->
                <<shape.user, "github.com", ":">> \o join_slash(shape.segs) \o suffix
          [] shape.kind = "https" ->
                <<"https:", "/", "/", "github.com">>
                    \o (IF shape.segs = <<>> THEN <<>> ELSE <<"/">> \o join_slash(shape.segs))
                    \o suffix
          [] shape.kind = "nocolon" -> SshNoColonUrl
          [] OTHER -> LocalUrl

\* subprocess.run(..., check=True) of main.py:230-233
remote_get_url(shape) == IF shape.kind = "failed" THEN Failed ELSE Ok(remote_url(shape))

\* every exception of the try block is caught (main.py:251), so the call returns
GetRepositoryId ==
    /\ pc = "call"
    /\ pc' = "returned"
    /\ ret' = get_repository_id(args.repo_path, remote_get_url(args.shape))
    /\ UNCHANGED <<repo_graph, test_graph, store, world, last, ops, todo, cycles,
                   savedGraph, args, call_order>>

InitId ==
    /\ repo_graph = EmptyGraph
    /\ test_graph = EmptyGraph
    /\ store = EmptyStore
    /\ \E c \in ApiRemote : remote = ByRepo(c)
    /\ \E c \in ApiLog : gitlog = ByRepo(c)
    /\ \E c \in ApiContent : content = ByFile(c)
    /\ last = NoOp
    /\ ops = 0
    /\ pc = "call"
    /\ todo = {}
    /\ cycles = 0
    /\ savedGraph = EmptyGraph
    /\ args \in [repo_path : IdPaths, shape : RemoteShapes]
    /\ ret = <<>>
    /\ call_order = <<>>

NextId == GetRepositoryId

SpecId == InitId /\ [][NextId]_vars


(***************************************************************************)
(* The three loops over the entries of a directory, each called on its     *)
(* own: walk_repos with a recording stand-in as its action                 *)
(* (tests/test_misc.py:105-127), process_repositories, and                 *)
(* clean_all_repositories with every outcome of its two git commands.      *)
(***************************************************************************)
\* subprocess.run(..., capture_output=True, text=True, check=True): git exits
\* 0, git exits non-zero, or git's output cannot be decoded
GitOutcomes == {Ok(<<>>), Failed, Undecodable}

\* main.py:373-389: the calls clean_repository makes, and whether an
\* exception leaves it.  Only CalledProcessError is handled (main.py:388).
clean_repository_unchecked(repo_path, reset_result, clean_result) ==
    [calls |-> << <<"git reset --hard", repo_path>>, <<"git clean -fdx", repo_path>>,
                  <<"logging.info", repo_path>> >>,
     raised |-> FALSE]

clean_repository(repo_path, reset_result, clean_result) ==
    LET reset == <<"git reset --hard", repo_path>>
        clean == <<"git clean -fdx", repo_path>>
        handled(r) == IF r.exc = "CalledProcessError"
                      THEN << <<"logging.error", repo_path>> >> ELSE <<>>
    IN  IF ~reset_result.ok
        THEN [calls |-> <<reset>> \o handled(reset_result),
              raised |-> reset_result.exc # "CalledProcessError"]
        ELSE IF ~clean_result.ok
        THEN [calls |-> <<reset, clean>> \o handled(clean_result),
              raised |-> clean_result.exc # "CalledProcessError"]
        ELSE [calls |-> <<reset, clean, <<"logging.info", repo_path>> >>,
              raised |-> FALSE]

\* the marker entries the loops are called with
Signatures == {".git", "m.zig"}

AllOk == ByRepo([a |-> Ok(<<>>), b |-> Ok(<<>>)])

WalkArgs ==
    [fn : {"walk_repos"}, signature : Signatures, ignore : {FALSE},
     reset : {AllOk}, clean : {AllOk}]
    \cup [fn : {"process_repositories"}, signature : {".git"}, ignore : {FALSE},
          reset : {AllOk}, clean : {AllOk}]
    \cup [fn : {"clean_all_repositories"}, signature : Signatures, ignore : BOOLEAN,
          reset : {ByRepo(c) : c \in [a : GitOutcomes, b : {Ok(<<>>), Failed}]},
          clean : {ByRepo(c) : c \in [a : {Ok(<<>>), Failed}, b : GitOutcomes]}]

WalkStep ==
    /\ UNCHANGED <<store, world, last, ops, cycles, savedGraph, args, ret>>

\* `if ignore: return` (main.py:401-402), then os.listdir (main.py:301, 366, 404)
ListRepos ==
    /\ pc = "call"
    /\ IF args.fn = "clean_all_repositories" /\ args.ignore
       THEN pc' = "returned" /\ UNCHANGED todo
       ELSE pc' = "loop" /\ todo' = ListDir
    /\ UNCHANGED <<repo_graph, test_graph, call_order>>
    /\ WalkStep

\* main.py:366-369
WalkReposEntry ==
    /\ pc = "loop"
    /\ args.fn = "walk_repos"
    /\ \E repo_name \in todo :
        /\ todo' = todo \ {repo_name}
        /\ IF Qualifies(repo_name, args.signature)
           THEN Applied("action", path_join(repos_path, repo_name))
           ELSE UNCHANGED call_order
    /\ UNCHANGED <<repo_graph, test_graph, pc>>
    /\ WalkStep

\* main.py:301-304
ProcessRepositoriesEntry ==
    /\ pc = "loop"
    /\ args.fn = "process_repositories"
    /\ \E repo_name \in todo :
        LET repo_path == path_join(repos_path, repo_name)
        IN  /\ todo' = todo \ {repo_name}
            /\ IF Qualifies(repo_name, ".git")
               THEN /\ SetHeap(process_repository(Heap, repo_path, Inspector, "repo_graph"))
                    /\ Applied("process_repository", repo_path)
                    /\ pc' = IF process_commits_raises(gitlog[repo_path])
                             THEN "raised" ELSE "loop"
               ELSE UNCHANGED <<repo_graph, test_graph, call_order, pc>>
    /\ WalkStep

CleanAllRepositoriesEntryStopping ==
    /\ pc = "loop"
    /\ args.fn = "clean_all_repositories"
    /\ \E repo_name \in todo :
        LET repo_dir == path_join(repos_path, repo_name)
            r == clean_repository(repo_dir, args.reset[repo_dir], args.clean[repo_dir])
        IN  /\ todo' = todo \ {repo_name}
            /\ IF Qualifies(repo_name, args.signature)
               THEN /\ call_order' = Append(call_order, <<"clean_repository", repo_dir>>)
                                         \o r.calls
                    /\ pc' = IF args.reset[repo_dir].ok /\ args.clean[repo_dir].ok
                             THEN "loop" ELSE "raised"
               ELSE UNCHANGED <<call_order, pc>>
    /\ UNCHANGED <<repo_graph, test_graph>>
    /\ WalkStep

\* main.py:404-406
CleanAllRepositoriesEntry ==
    /\ pc = "loop"
    /\ args.fn = "clean_all_repositories"
    /\ \E repo_name \in todo :
        LET repo_dir == path_join(repos_path, repo_name)
            r == clean_repository(repo_dir, args.reset[repo_dir], args.clean[repo_dir])
        IN  /\ todo' = todo \ {repo_name}
            /\ IF Qualifies(repo_name, args.signature)
               THEN /\ call_order' = Append(call_order, <<"clean_repository", repo_dir>>)
                                         \o r.calls
                    /\ pc' = IF r.raised THEN "raised" ELSE "loop"
               ELSE UNCHANGED <<call_order, pc>>
    /\ UNCHANGED <<repo_graph, test_graph>>
    /\ WalkStep

\* the loop has visited every entry: the function returns
LoopDone ==
    /\ pc = "loop"
    /\ todo = {}
    /\ pc' = "returned"
    /\ UNCHANGED <<repo_graph, test_graph, todo, call_order>>
    /\ WalkStep

InitWalk ==
    /\ repo_graph = EmptyGraph
    /\ test_graph = EmptyGraph
    /\ store = EmptyStore
    /\ \E c \in ApiRemote : remote = ByRepo(c)
    /\ \E c \in LogChoices : gitlog = ByRepo(c)
    /\ \E c \in ApiContent : content = ByFile(c)
    /\ last = NoOp
    /\ ops = 0
    /\ pc = "call"
    /\ todo = {}
    /\ cycles = 0
    /\ savedGraph = EmptyGraph
    /\ args \in WalkArgs
    /\ ret = <<>>
    /\ call_order = <<>>

NextWalk ==
    \/ ListRepos
    \/ WalkReposEntry
    \/ ProcessRepositoriesEntry
    \/ CleanAllRepositoriesEntry
    \/ LoopDone

SpecWalk == InitWalk /\ [][NextWalk]_vars


(***************************************************************************)
(* Properties.                                                             *)
(***************************************************************************)
CommitKeys == {"timestamp", "author", "message"}

HasRelation(G, rel) == \E t \in Triples(G) : t[3] = rel

\* C1: running process_repository on a repository a second time, with the
\* inspector's outputs unchanged, leaves both graph objects (nodes, their
\* attributes, edges, their relations) exactly as the first run left them.
IdempotentConstruction ==
    \A repo_path \in Repos, ref \in GraphRefs :
        \A once \in {process_repository(Heap, repo_path, Inspector, ref)} :
            process_repository(once, repo_path, Inspector, ref) = once

\* a repository has been processed: commits, containment and references are in the graph
IdempotentConstructionWitness ==
    /\ pc = "process"
    /\ todo # ListDir
    /\ HasRelation(repo_graph, "has_commit")
    /\ HasRelation(repo_graph, "contains")
    /\ HasRelation(repo_graph, "references")

\* an attribute dict read the way save reads it: a missing key is ''
WithDefaults(d) == [k \in AttrKeys |-> IF k \in DOMAIN d THEN d[k] ELSE ""]

AsPersisted(G) == [nodes |-> [n \in NodeIds(G) |-> WithDefaults(G.nodes[n])], adj |-> G.adj]

\* the process of the second run has just loaded what the first run saved
\* into an empty store
LoadedAfterFirstSave == pc = "clean" /\ cycles = 1

\* C2 (as stated): save into an empty store followed by load into an empty
\* graph gives back a graph identical to the saved one, attribute dicts included.
RoundTripExact == LoadedAfterFirstSave => repo_graph = savedGraph

\* C2 (amended): save into an empty store followed by load into an empty
\* graph gives back the same node ids, the same edges with the same relation
\* labels, and for every node the same type, timestamp, author and message
\* when an attribute the saved node did not have is read as ''.
RoundTripAmended == LoadedAfterFirstSave => repo_graph = AsPersisted(savedGraph)

RoundTripWitness ==
    /\ LoadedAfterFirstSave
    /\ \E n \in NodeIds(savedGraph) : Get(savedGraph.nodes[n], "node_type") = COMMIT
    /\ \E n \in NodeIds(savedGraph) : savedGraph.nodes[n] = EmptyDict
    /\ HasRelation(savedGraph, "has_commit")
    /\ HasRelation(savedGraph, "references")

\* C3: a row of nodes, once in the store, keeps its type, timestamp, author and
\* message through every later operation, and save on an initialised store
\* never fails.
StoreWriteOnce ==
    [][ /\ \A n \in DOMAIN store.nodes :
              n \in DOMAIN store'.nodes /\ store'.nodes[n] = store.nodes[n]
        /\ (last'.op = "save" /\ ops' = ops + 1 /\ store.schema) => last'.ok ]_vars

\* save has run while a persisted commit had other values in memory
StoreWriteOnceWitness ==
    /\ last.op = "save"
    /\ last.ok
    /\ \E n \in NodeIds(repo_graph) \cap DOMAIN store.nodes :
          /\ store.nodes[n].type = COMMIT
          /\ Get(repo_graph.nodes[n], "timestamp") # store.nodes[n].timestamp

\* C4: once the first run of main_entry has saved, no step of a later run
\* over the same repositories changes the rows of nodes or of edges.
RepeatedRuns ==
    [][ cycles >= 1 => (store'.nodes = store.nodes /\ store'.edges = store.edges) ]_vars

RepeatedRunsWitness ==
    /\ cycles = 2
    /\ pc = "serve"
    /\ DOMAIN store.nodes # {}
    /\ store.edges # {}

\* C5: when save has returned, every node id of the in-memory graph has a row
\* in nodes and every in-memory edge has its (src, dest, relation) row in edges.
SaveCompleteness ==
    (last.op = "save" /\ last.ok) =>
        /\ NodeIds(repo_graph) \subseteq DOMAIN store.nodes
        /\ Triples(repo_graph) \subseteq store.edges

\* save has returned on a store that also holds rows the graph does not
SaveCompletenessWitness ==
    /\ last.op = "save"
    /\ last.ok
    /\ Triples(repo_graph) # {}
    /\ \E n \in NodeIds(repo_graph) : repo_graph.nodes[n] = EmptyDict
    /\ DOMAIN store.nodes \ NodeIds(repo_graph) # {}

\* C6: load into an empty graph yields exactly the persisted nodes, with the
\* persisted type, timestamp, author and message, and exactly the persisted
\* edges with their relation labels.
LoadExactness ==
    (last.op = "load" /\ last.ok /\ last.fresh) =>
        /\ NodeIds(repo_graph) = DOMAIN store.nodes
        /\ \A n \in DOMAIN store.nodes : node_row(repo_graph.nodes[n]) = store.nodes[n]
        /\ Triples(repo_graph) = store.edges

\* C7: an edge is identified by (src, dest, relation): adding an edge between
\* two connected nodes adds its triple (nothing, when the triple is there) and
\* keeps every triple that was there.
EdgeIdentity ==
    \A e \in DOMAIN repo_graph.adj, rel \in Relations :
        Triples(nx_add_edge(repo_graph, e[1], e[2], rel)) =
            Triples(repo_graph) \cup {<<e[1], e[2], rel>>}

\* C8: every node of a graph carries a type of NodeType, and every row of
\* nodes has its type in NodeType.
TypedNodes ==
    /\ \A ref \in GraphRefs : \A n \in NodeIds(Heap[ref]) :
          /\ "node_type" \in DOMAIN Heap[ref].nodes[n]
          /\ Heap[ref].nodes[n]["node_type"] \in NodeType
    /\ \A n \in DOMAIN store.nodes : store.nodes[n].type \in NodeType

\* C9: a commit node of the in-memory graph keeps the timestamp, author and
\* message it has.
CommitWriteOnce ==
    [][ \A n \in NodeIds(repo_graph) :
            Get(repo_graph.nodes[n], "node_type") = COMMIT =>
                /\ n \in NodeIds(repo_graph')
                /\ \A k \in CommitKeys :
                      Get(repo_graph'.nodes[n], k) = Get(repo_graph.nodes[n], k) ]_vars

\* C10: no operation removes a node id or a (src, dest, relation) edge from
\* the in-memory graph or from the store.
NothingDeleted ==
    [][ /\ NodeIds(repo_graph) \subseteq NodeIds(repo_graph')
        /\ Triples(repo_graph) \subseteq Triples(repo_graph')
        /\ DOMAIN store.nodes \subseteq DOMAIN store'.nodes
        /\ store.edges \subseteq store'.edges ]_vars

\* C11: in every reachable state every edge of either graph object has its
\* source and its destination among the graph's nodes, and when save has run
\* every row of edges has its src and its dest as ids of rows of nodes.
ReferentialIntegrity ==
    /\ \A ref \in GraphRefs : \A e \in DOMAIN Heap[ref].adj :
          e[1] \in NodeIds(Heap[ref]) /\ e[2] \in NodeIds(Heap[ref])
    /\ last.op = "save" =>
          \A row \in store.edges :
              row[1] \in DOMAIN store.nodes /\ row[2] \in DOMAIN store.nodes

\* save has written an edge whose source exists only because add_edge made it
ReferentialIntegrityWitness ==
    /\ last.op = "save"
    /\ last.ok
    /\ \E e \in DOMAIN repo_graph.adj :
          /\ repo_graph.nodes[e[1]] = EmptyDict
          /\ <<e[1], e[2], repo_graph.adj[e]>> \in store.edges
          /\ e[1] \in DOMAIN store.nodes

\* the remote URL has an owner and a name after the host
HasOwnerAndName(shape) == shape.kind \in {"ssh", "https"} /\ Len(shape.segs) >= 2

\* the last two segments of the URL's path, as owner/name
OwnerName(shape) == <<shape.segs[Len(shape.segs) - 1], shape.segs[Len(shape.segs)]>>

\* C12 (as stated): for every remote URL user@host:path/name[.git] or
\* https://host/path/name[.git], get_repository_id returns owner/name, the last
\* two '/'-separated segments with a trailing .git removed, whatever the
\* repository path is.
IdentityResolutionAnyUser ==
    (pc = "returned" /\ HasOwnerAndName(args.shape)) => ret = OwnerName(args.shape)

\* C12 (amended): the same for every remote URL git@host:path/name[.git] or
\* https://host/path/name[.git]: the SSH shape is the one whose user is git.
IdentityResolution ==
    (pc = "returned" /\ HasOwnerAndName(args.shape)
        /\ (args.shape.kind = "ssh" => args.shape.user = "git@"))
    => ret = OwnerName(args.shape)

\* git@github.com:org/user/repo.git has been resolved for a repository in a
\* directory of another name
IdentityResolutionWitness ==
    /\ pc = "returned"
    /\ args.shape = [kind |-> "ssh", user |-> "git@", segs |-> <<"org", "user", "repo">>,
                     dotgit |-> TRUE]
    /\ ret = <<"user", "repo">>
    /\ ret # basename_normpath(args.repo_path)

\* the remote lookup failed, the URL has neither shape, or it has fewer than
\* two segments after the host
MustFallBack(shape) ==
    \/ shape.kind \in {"failed", "nocolon", "local"}
    \/ shape.kind \in {"ssh", "https"} /\ Len(shape.segs) < 2

\* C13: get_repository_id returns the final component of the repository's path
\* whenever the remote lookup fails, the URL matches neither accepted shape, or
\* fewer than two owner/name segments are obtained from the URL.
IdentityFallback ==
    (pc = "returned" /\ MustFallBack(args.shape))
    => ret = basename_normpath(args.repo_path)

\* C14: get_repository_id returns, and what it returns is a non-empty string,
\* for every repository path and every outcome of the remote lookup.
IdentityNonEmpty ==
    pc # "call" => (pc = "returned" /\ ret # ToId(""))

\* the attributes add_commit gives the commit of a log line
CommitOf(line) ==
    [node_type |-> COMMIT, timestamp |-> line[2], author |-> line[3], message |-> line[4]]

\* C15: for a log the inspector delivered, process_commits leaves in the graph
\* it was given a commit node with the line's timestamp, author and message
\* and a has_commit edge repo_id -> hash for every line of four '|'-separated
\* fields, wherever the line stands in the log, and adds or changes nothing
\* else: no node and no edge comes from a line of another length.
CommitExtraction ==
    \A call \in Calls :
        LET repo_path == call[1]
            ref == call[2]
            repo_id == get_repository_id(repo_path, remote[repo_path])
            kept == {line \in Range(gitlog[repo_path].out) : Len(line) = 4}
            hashes == {ToId(line[1]) : line \in kept}
        IN  gitlog[repo_path].ok =>
            \A after \in {process_commits(Heap, gitlog[repo_path], repo_id, ref)} :
                /\ ~process_commits_raises(gitlog[repo_path])
                /\ \A line \in kept :
                      /\ after[ref].nodes[ToId(line[1])] = CommitOf(line)
                      /\ <<repo_id, ToId(line[1]), "has_commit">> \in Triples(after[ref])
                /\ NodeIds(after[ref]) =
                      NodeIds(Heap[ref]) \cup hashes \cup (IF kept = {} THEN {} ELSE {repo_id})
                /\ \A n \in NodeIds(Heap[ref]) \ hashes :
                      after[ref].nodes[n] = Heap[ref].nodes[n]
                /\ DOMAIN after[ref].adj =
                      DOMAIN Heap[ref].adj \cup {<<repo_id, c>> : c \in hashes}
                /\ \A e \in DOMAIN Heap[ref].adj :
                      e[2] \notin hashes => after[ref].adj[e] = Heap[ref].adj[e]
                /\ \A other \in GraphRefs \ {ref} : after[other] = Heap[other]

\* process_commits has run on the log c1|100|Alice|init, c2c2c2c2c2|200 (one commit)
\* and on the log c3|300|Eve|a|b, c2c2c2c2c2|200|Bob|fix (the line after the dropped one
\* is kept)
CommitExtractionWitness ==
    /\ last.op = "process_commits"
    /\ last.ok
    /\ {n \in NodeIds(test_graph) : Get(test_graph.nodes[n], "node_type") = COMMIT} = {Hash1}
    /\ HasRelation(test_graph, "has_commit")
    /\ repo_graph.nodes = (ToId(Line2[1]) :> CommitOf(Line2)) @@ (<<"user", "repo">> :> EmptyDict)

FailureIsolation ==
    /\ pc # "aborted"
    /\ pc \in {"walk", "save", "serve"} =>
          \A repo_path \in Repos :
              get_repository_id(repo_path, remote[repo_path]) \in NodeIds(repo_graph)

\* the directories and the files os.walk reports under repo_path
WalkedFolders(repo_path) ==
    UNION {{w.root} \cup {path_join(w.root, d) : d \in Range(w.dirs)} :
              w \in Range(os_walk(repo_path))}

WalkedFiles(repo_path) ==
    UNION {{path_join(w.root, f) : f \in Range(w.files)} : w \in Range(os_walk(repo_path))}

\* G holds the containment structure of repo_path
Contains(G, repo_path) ==
    /\ \A folder_path \in WalkedFolders(repo_path) :
          /\ folder_path \in NodeIds(G)
          /\ Get(G.nodes[folder_path], "node_type") = FOLDER
    /\ \A file_path \in WalkedFiles(repo_path) :
          /\ file_path \in NodeIds(G)
          /\ <<dirname(file_path), file_path, "contains">> \in Triples(G)

\* C18: after process_repository_files(repo_path, graph), the graph passed as
\* argument holds a folder node for the root and for every directory beneath
\* it and, for every file found, a node and a contains edge from the file's
\* directory.
ContainmentCompleteness ==
    \A call \in Calls :
        \A after \in {process_repository_files(Heap, call[1], content, call[2])} :
            Contains(after[call[2]], call[1])

\* C19: when a .zig file cannot be read, process_repository_files still runs
\* to its end and leaves both graphs exactly as it leaves them when that file
\* is read and holds no import.
UnreadableFileSkipped ==
    \A call \in Calls :
        \A file_path \in WalkedFiles(call[1]) \cap ZigFiles :
            ~content[file_path].ok =>
                process_repository_files(Heap, call[1], content, call[2]) =
                process_repository_files(Heap, call[1],
                                         [content EXCEPT ![file_path] = Ok(<<>>)], call[2])

\* /p/b has been scanned with k.zig unreadable: k.zig and the file met after it
\* are contained in their folders, k.zig references nothing
UnreadableFileSkippedWitness ==
    /\ last.op = "process_repository_files"
    /\ ~content[path_join(RepoB, "k.zig")].ok
    /\ <<RepoB, path_join(RepoB, "k.zig"), "contains">> \in Triples(repo_graph)
    /\ <<path_join(RepoB, ".git"), path_join(path_join(RepoB, ".git"), "HEAD"), "contains">>
          \in Triples(repo_graph)
    /\ \A t \in Triples(repo_graph) : t[1] # path_join(RepoB, "k.zig")

\* C20: for a file whose content holds the set I of distinct import
\* identifiers, analyze_zig_file leaves in the graph it was given one
\* references edge file -> i for each i of I, with the file and every i nodes
\* of type file, and adds or changes no other node or edge; for an empty I it
\* changes nothing.
ReferenceExtraction ==
    \A file_path \in ZigFiles, ref \in GraphRefs :
        content[file_path].ok =>
            \A after \in {analyze_zig_file(Heap, file_path, content[file_path], ref)} :
                LET I == Range(content[file_path].out)
                    added == {<<file_path, i>> : i \in I}
                IN  /\ \A i \in I :
                          /\ <<file_path, i, "references">> \in Triples(after[ref])
                          /\ Get(after[ref].nodes[i], "node_type") = FILE
                          /\ Get(after[ref].nodes[file_path], "node_type") = FILE
                    /\ DOMAIN after[ref].adj = DOMAIN Heap[ref].adj \cup added
                    /\ \A e \in DOMAIN Heap[ref].adj \ added :
                          after[ref].adj[e] = Heap[ref].adj[e]
                    /\ NodeIds(after[ref]) =
                          NodeIds(Heap[ref]) \cup I \cup (IF I = {} THEN {} ELSE {file_path})
                    /\ \A n \in NodeIds(Heap[ref]) \ (I \cup {file_path}) :
                          after[ref].nodes[n] = Heap[ref].nodes[n]
                    /\ I = {} => after = Heap
                    /\ \A other \in GraphRefs \ {ref} : after[other] = Heap[other]

\* m.zig, which imports std twice and a once, and k.zig, which imports
\* nothing, have been analysed
ReferenceExtractionWitness ==
    /\ pc = "process"
    /\ todo \cap {"a", "b"} = {}
    /\ content[MZig] = Ok(<<StdImport, NameImport, StdImport>>)
    /\ content[path_join(RepoB, "k.zig")] = Ok(<<>>)
    /\ {t \in Triples(repo_graph) : t[3] = "references"} =
          {<<MZig, StdImport, "references">>, <<MZig, NameImport, "references">>}
    /\ Get(repo_graph.nodes[StdImport], "node_type") = FILE

\* the first seven characters of the commit ids of the model's logs
First7 == (ToId(Line1[1]) :> ToId("c1")) @@ (ToId(Line2[1]) :> ToId("c2c2c2c"))
              @@ (ToId(Line3Long[1]) :> ToId("c3"))

\* the commit nodes of the store that a has_commit row links to repo_id
CommitsOf(repo_id, s) ==
    {n \in DOMAIN s.nodes : s.nodes[n].type = COMMIT /\ <<repo_id, n, "has_commit">> \in s.edges}

\* C21: on an initialised store get_commits_for_repo(repo_id) returns without
\* error exactly one record per commit node that a has_commit row links to
\* repo_id, holding the first 7 characters of the commit id and the persisted
\* timestamp, author and message; with no such row the list is empty.
QueryCorrectness ==
    (last.op = "query" /\ store.schema) =>
        /\ last.ok
        /\ Cardinality(DOMAIN ret) = Cardinality(CommitsOf(args[1], store))
        /\ \A n \in CommitsOf(args[1], store) :
              \E row \in DOMAIN ret :
                  /\ row[1] = n
                  /\ ret[row] = [commit |-> First7[n],
                                 timestamp |-> store.nodes[n].timestamp,
                                 author |-> store.nodes[n].author,
                                 message |-> store.nodes[n].message]

\* the commit c2c2c2c2c2 of user/repo has been saved and queried
QueryCorrectnessWitness ==
    /\ last.op = "query"
    /\ last.ok
    /\ args = <<<<"user", "repo">>>>
    /\ \E row \in DOMAIN ret :
          ret[row] = [commit |-> ToId("c2c2c2c"), timestamp |-> "200",
                      author |-> "Bob", message |-> "fix"]

(***************************************************************************)
(* Run ordering of main_entry (main.py:449-459, tests/test_init.py:4-63)   *)
(***************************************************************************)
\* how often the current run has made the call
Count(name) == Cardinality({i \in DOMAIN call_order : call_order[i][1] = name})

\* the positions of the current run's calls of the function
Positions(names) == {i \in DOMAIN call_order : call_order[i][1] \in names}

ConstructionSteps ==
    {"clean_all_repositories", "process_repositories", "walk_repos",
     "process_repository", "process_repository_files"}

\* C22: in every run of main_entry, init_db and load are called exactly once
\* and before every construction step (cleaning, process_repositories,
\* walk_repos); save is called exactly once, after all three construction
\* steps and with nothing built after it; the server runs, and answers, only
\* once save is over.  (A run that an error ends during construction never
\* comes to save: that is the matter of C17, not of the order of the calls.)
RunOrdering ==
    /\ \A name \in {"init_db", "load_graph_from_db", "save_graph_to_db"} : Count(name) <= 1
    /\ \A i \in Positions(ConstructionSteps) :
          \E j \in Positions({"init_db"}), k \in Positions({"load_graph_from_db"}) :
              j < k /\ k < i
    /\ \A i \in Positions({"save_graph_to_db"}) :
          /\ \A j \in Positions(ConstructionSteps) : j < i
          /\ \A name \in {"clean_all_repositories", "process_repositories", "walk_repos"} :
                Count(name) = 1
          /\ store.schema
          /\ savedGraph = repo_graph
    /\ pc = "serve" =>
          \A name \in {"init_db", "load_graph_from_db", "save_graph_to_db"} : Count(name) = 1
    /\ ret # <<>> => Count("save_graph_to_db") = 1

\* the server of a second run answers a query with the commits of a repository
RunOrderingWitness ==
    /\ pc = "serve"
    /\ cycles = 2
    /\ Count("save_graph_to_db") = 1
    /\ Positions({"process_repository"}) # {}
    /\ ret # <<>>

(***************************************************************************)
(* The store before init_db (main.py:28-63) has run on it                  *)
(***************************************************************************)
\* the step is a call of one of the operations
Invokes(names) == ops' = ops + 1 /\ last'.op \in names

\* C23 as stated: on a store whose tables have not been created, load, save
\* and query each fail with an error whatever the graph in memory holds, and
\* no operation but init_db creates the tables.
MissingSchemaFatal ==
    [][ ~store.schema =>
          /\ Invokes({"load", "save", "query"}) => ~last'.ok
          /\ store'.schema => Invokes({"init_db"}) ]_vars

\* C23: on a store whose tables have not been created, load and query fail
\* with an error, save fails with an error whenever the graph in memory holds
\* at least one node, and no operation but init_db creates the tables.
MissingSchemaFatalNonEmpty ==
    [][ ~store.schema =>
          /\ Invokes({"load", "query"}) => ~last'.ok
          /\ (Invokes({"save"}) /\ NodeIds(repo_graph) # {}) => ~last'.ok
          /\ store'.schema => Invokes({"init_db"}) ]_vars

\* a graph with nodes has just been refused by a store without tables
MissingSchemaWitness ==
    /\ last.op = "save"
    /\ ~last.ok
    /\ ~store.schema
    /\ NodeIds(repo_graph) # {}

(***************************************************************************)
(* Repository discovery and cleaning                                       *)
(***************************************************************************)
\* the direct children of repos_path that are directories and contain an
\* entry named signature
MarkerDirs(signature) ==
    {d \in Dirs : dirname(d) = repos_path
                  /\ \E e \in Dirs \cup Files : dirname(e) = d /\ e = path_join(d, signature)}

\* what each loop applies to the entries it selects
LoopActions == {"action", "process_repository", "clean_repository"}

\* the entries the loop has acted on so far
ActedOn == {call_order[i][2] : i \in Positions(LoopActions)}

TimesActedOn(repo_dir) ==
    Cardinality({i \in Positions(LoopActions) : call_order[i][2] = repo_dir})

\* C24: walk_repos, process_repositories and clean_all_repositories act only
\* on direct children of the root that are directories containing the marker
\* entry, on none of them twice in a pass, and a pass that returns has acted
\* on every one of them; clean_all_repositories with ignore set makes no call
\* at all.
RepositoryDiscovery ==
    LET signature == IF args.fn = "process_repositories" THEN ".git" ELSE args.signature
        ignored == args.fn = "clean_all_repositories" /\ args.ignore
    IN  /\ ActedOn \subseteq MarkerDirs(signature)
        /\ \A repo_dir \in ActedOn : TimesActedOn(repo_dir) = 1
        /\ (pc = "returned" /\ ~ignored) => ActedOn = MarkerDirs(signature)
        /\ ignored => call_order = <<>>

\* a pass of clean_all_repositories with marker m.zig has returned: of the
\* four entries under the root it has acted on /p/a alone
RepositoryDiscoveryWitness ==
    /\ pc = "returned"
    /\ args.fn = "clean_all_repositories"
    /\ ~args.ignore
    /\ args.signature = "m.zig"
    /\ ActedOn = {RepoA}
    /\ MarkerDirs(".git") = {RepoA, RepoB}

\* the positions at which the git command was run on the repository
RanAt(command, repo_dir) == {i \in DOMAIN call_order : call_order[i] = <<command, repo_dir>>}

\* C25: clean_repository runs `git reset --hard` before `git clean -fdx`;
\* it never runs the clean step unless the reset step, run just before it
\* on the same repository, has succeeded; when both succeed each has run
\* exactly once.
ResetBeforeClean ==
    \A repo_dir \in {call_order[i][2] : i \in Positions({"clean_repository"})} :
        LET resets == RanAt("git reset --hard", repo_dir)
            cleans == RanAt("git clean -fdx", repo_dir)
        IN  /\ Cardinality(resets) = 1
            /\ \A i \in cleans : (i - 1) \in resets /\ args.reset[repo_dir].ok
            /\ (args.reset[repo_dir].ok /\ args.clean[repo_dir].ok) => Cardinality(cleans) = 1
            /\ ~args.reset[repo_dir].ok => cleans = {}

\* /p/a has been reset and then cleaned; /p/b, whose reset failed, has not
\* been cleaned
ResetBeforeCleanWitness ==
    /\ pc = "returned"
    /\ args.reset[RepoA].ok /\ args.clean[RepoA].ok
    /\ ~args.reset[RepoB].ok
    /\ RanAt("git reset --hard", RepoA) # {} /\ RanAt("git clean -fdx", RepoA) # {}
    /\ RanAt("git reset --hard", RepoB) # {} /\ RanAt("git clean -fdx", RepoB) = {}

\* C26: process_repository(path, graph=G) and process_repository_files(path, G)
\* called with a graph G other than the process-wide repo_graph leave
\* repo_graph exactly as it was.
ExplicitGraphFrame ==
    \A repo_path \in Repos :
        /\ \A after \in {process_repository(Heap, repo_path, Inspector, "test_graph")} :
              after.repo_graph = repo_graph
        /\ \A after \in {process_repository_files(Heap, repo_path, content, "test_graph")} :
              after.repo_graph = repo_graph

\* the lines of the repository's log that process_commits keeps (main.py:268-269)
WellFormedLines(repo_path) ==
    IF gitlog[repo_path].ok
    THEN {line \in Range(gitlog[repo_path].out) : Len(line) = 4}
    ELSE {}

\* C27: once a run of main_entry has come through init_db, load, construction
\* and save, on the store that the earlier runs left, the query for the
\* resolved id of every repository answers, and its answer holds, for every
\* well-formed line of the repository's log, a record of that commit: the
\* first seven characters of the hash and the line's timestamp, author and
\* message.
BuildToQuery ==
    pc = "serve" =>
        \A repo_path \in Repos :
            LET repo_id == get_repository_id(repo_path, remote[repo_path])
                r == get_commits_for_repo(repo_id, store)
            IN  /\ r.ok
                /\ \A line \in WellFormedLines(repo_path) :
                      \E row \in DOMAIN r.commits :
                          /\ row[1] = ToId(line[1])
                          /\ r.commits[row] =
                                [commit |-> str_prefix(ToId(line[1]), 7), timestamp |-> line[2],
                                 author |-> line[3], message |-> line[4]]

\* the server of a second run has answered the query for /p/a, resolved to
\* user/repo, with the two commits of its log
BuildToQueryWitness ==
    /\ pc = "serve"
    /\ cycles = 2
    /\ WellFormedLines(RepoA) = {Line1, Line2}
    /\ args = <<get_repository_id(RepoA, remote[RepoA])>>
    /\ args = << <<"user", "repo">> >>
    /\ {<<"c1">>, <<"c2c2c2c">>} \subseteq {ret[row].commit : row \in DOMAIN ret}

\* the nodes of G that carry a type, each with its type
TypeOf(G) == [n \in {m \in NodeIds(G) : "node_type" \in DOMAIN G.nodes[m]} |-> G.nodes[n].node_type]

\* C28: no node id is the key of two entity kinds: once a node of a graph
\* has been given a type, no construction or load operation gives that node
\* another type.
OneKindPerId ==
    [][ \A G \in {<<repo_graph, repo_graph'>>, <<test_graph, test_graph'>>} :
            \A n \in DOMAIN TypeOf(G[1]) \cap DOMAIN TypeOf(G[2]) :
                TypeOf(G[2])[n] = TypeOf(G[1])[n] ]_vars

\* the modifies edges of both graphs of a heap
ModifiesEdges(h) ==
    {t \in Triples(h.repo_graph) \cup Triples(h.test_graph) : t[3] = "modifies"}

\* C29: through any number of runs of main_entry on a store that was empty at
\* first, no edge with relation modifies exists in memory or in the store,
\* and none would come from any construction function applied to the graphs
\* as they are, but from add_file, which does create one.
ModifiesNotPopulated ==
    /\ ModifiesEdges(Heap) = {}
    /\ {e \in store.edges : e[3] = "modifies"} = {}
    /\ \A repo_path \in Repos :
          LET repo_id == get_repository_id(repo_path, remote[repo_path])
          IN  \A after \in {add_commit(Heap, Hash1, "100", "Alice", "init", "repo_graph"),
                            add_folder(Heap, repo_path),
                            add_file_to_folder(Heap, FirstZig(repo_path)),
                            add_reference(Heap, FirstZig(repo_path), StdImport),
                            add_repository(Heap, repo_id, "repo_graph"),
                            analyze_zig_file(Heap, FirstZig(repo_path),
                                             content[FirstZig(repo_path)], "repo_graph"),
                            process_commits(Heap, gitlog[repo_path], repo_id, "repo_graph"),
                            process_repository_files(Heap, repo_path, content, "repo_graph"),
                            process_repository(Heap, repo_path, Inspector, "repo_graph")} :
                  ModifiesEdges(after) = {}
    /\ ModifiesEdges(add_file(Heap, MZig, Hash1)) = {<<Hash1, MZig, "modifies">>}

\* a second run has saved a store that holds edges of the three other
\* relations
ModifiesNotPopulatedWitness ==
    /\ pc = "serve"
    /\ cycles = 2
    /\ {e[3] : e \in store.edges} = {"has_commit", "contains", "references"}
    /\ {t[3] : t \in Triples(repo_graph)} = {"has_commit", "contains", "references"}

\* git exited non-zero in one of the two steps clean_repository ran on the
\* repository: subprocess.run(check=True) reports it as CalledProcessError
StepFailed(repo_dir) ==
    \/ args.reset[repo_dir] = Failed
    \/ args.reset[repo_dir].ok /\ args.clean[repo_dir] = Failed

\* an exception of another class left one of the two steps
StepRaisedOther(repo_dir) ==
    \/ args.reset[repo_dir] = Undecodable
    \/ args.reset[repo_dir].ok /\ args.clean[repo_dir] = Undecodable

\* the calls clean_repository made on the repository, after position i
CallsAfter(i, repo_dir) ==
    {call_order[j][1] : j \in {k \in DOMAIN call_order : k > i /\ call_order[k][2] = repo_dir}}

====
